---- MODULE Spec2Model ----
(***************************************************************************)
(* A model of pcb-to-stencil: the Gerber interpreter (ParseGerber), the    *)
(* rasterizer (CalculateBounds, Render, drawAperture, drawCircle,          *)
(* drawLine) of src/gerber.go and the mesh extruder (AddBox,               *)
(* GenerateMeshFromImage) of src/main.go.                                  *)
(*                                                                         *)
(* Lengths are integers in units of 10^-4 of the file's unit (mm or inch), *)
(* so that a coordinate with four decimals is exact.  An image is the      *)
(* record [w, h, white]: its width, its height and the set of <<x, y>>     *)
(* pixels that were set to white (clear); every other pixel is black       *)
(* (solid).                                                                *)
(***************************************************************************)
EXTENDS Integers, Sequences, FiniteSets, TLC

VARIABLES
    pc,            \* position of the running operation
    img,           \* the image: [w |-> width, h |-> height, white |-> set of pixels]
    StencilHeight, \* main.go: var StencilHeight, set from the -height flag
    y,             \* GenerateMeshFromImage: row of the scan
    x,             \* GenerateMeshFromImage: column of the scan
    startX,        \* GenerateMeshFromImage: start of the current run, -1 when none
    triangles,     \* GenerateMeshFromImage: the triangle list
    line,          \* drawLine: its arguments [x1, y1, x2, y2, ap, units]
    i,             \* drawLine: the loop counter
    centres,       \* drawLine: the centres of the drawAperture calls made so far
    gf,            \* the GerberFile: [Commands, State]
    bounds,        \* Render: its bounds argument, << >> for nil
    b,             \* Render: the bounds in use
    cmdIdx,        \* Render: the index in gf.Commands of the next command
    curX,          \* Render: the pen
    curY,
    curDCode,      \* Render: the active aperture code
    lines,         \* ParseGerber: the lines of the file
    scanned,       \* ParseGerber: the number of lines the scanner has returned
    readFailed,    \* ParseGerber: the scanner has met a read error (scanner.Err() /= nil)
    macroName,     \* ParseGerber: name, in the aperture-macro branch
    primitives,    \* ParseGerber: primitives, in the aperture-macro branch
    ret,           \* ParseGerber: the returned pair [gf, err], << >> for nil
    axis,          \* ParseGerber: m[1] of a coordinate match, "X" or "Y"
    valStr,        \* ParseGerber: valStr of a coordinate match
    coord          \* ParseGerber: v, the value parseCoordinate returned

meshVars == <<StencilHeight, y, x, startX, triangles>>
lineVars == <<line, i, centres>>
renderVars == <<bounds, b, cmdIdx, curX, curY, curDCode>>
parseVars == <<lines, scanned, readFailed, macroName, primitives, ret, axis, valStr, coord>>
vars == <<pc, img, gf, meshVars, lineVars, renderVars, parseVars>>

(***************************************************************************)
(* Bounds of the model.                                                    *)
(***************************************************************************)
MaxW == 3
MaxH == 2
\* drawLine: the pixel positions of the end points are in 0 .. MaxPx, 0 .. MaxPy
MaxPx == 1
MaxPy == 22
\* Render: the command lists hold at most MaxCmds commands
MaxCmds == 3
\* ParseGerber: the files hold at most MaxLines lines
MaxLines == 4
\* parseCoordinate: the coordinate strings hold at most MaxLen characters
MaxLen == 4

(***************************************************************************)
(* main.go: the configuration.                                             *)
(***************************************************************************)
DPI == 1000
\* PixelToMM = 25.4 / DPI, in units of 10^-4 mm
PixelToMM == 254000 \div DPI
\* values of the -height flag: the default of the code (0.2) and of the README (0.16)
HeightFlags == {2000, 1600}

(***************************************************************************)
(* Go's float64 arithmetic, as far as drawLine uses it.  A natural number  *)
(* of any size is the sequence of its digits in base 2^15, least           *)
(* significant first, with no leading zero (zero is the empty sequence); a *)
(* float64 is [neg, bits, e], the number (-1)^neg * bits * 2^e with at     *)
(* most 53 significant bits in bits.  Every operation rounds to nearest,   *)
(* ties to even, as IEEE 754 does.                                         *)
(***************************************************************************)
Mantissa == 53
LimbBits == 15
Base == 2 ^ LimbBits

Abs(n) == IF n < 0 THEN -n ELSE n

Min(S) == CHOOSE m \in S : \A n \in S : m <= n
Max(S) == CHOOSE m \in S : \A n \in S : m >= n

Limb(u, j) == IF j >= 1 /\ j <= Len(u) THEN u[j] ELSE 0

\* u without its leading zero digits
Strip(u) ==
    LET top == { j \in 1 .. Len(u) : u[j] /= 0 }
    IN  IF top = {} THEN << >>
        ELSE SubSeq(u, 1, CHOOSE j \in top : \A k \in top : k <= j)

RECURSIVE BigOf(_)
BigOf(n) == IF n = 0 THEN << >> ELSE <<n % Base>> \o BigOf(n \div Base)

RECURSIVE ValueOf(_)
ValueOf(u) == IF u = << >> THEN 0 ELSE u[1] + Base * ValueOf(Tail(u))

\* the number of binary digits of u
BitLen(u) ==
    IF u = << >> THEN 0
    ELSE LimbBits * (Len(u) - 1)
         + (CHOOSE k \in 1 .. LimbBits : 2 ^ (k - 1) <= u[Len(u)] /\ u[Len(u)] < 2 ^ k)

\* binary digit k of u, the least significant being digit 1
BitAt(u, k) == (Limb(u, (k - 1) \div LimbBits + 1) \div (2 ^ ((k - 1) % LimbBits))) % 2

\* whether the k least significant binary digits of u are all zero
LowBitsZero(u, k) ==
    /\ \A j \in 1 .. k \div LimbBits : Limb(u, j) = 0
    /\ Limb(u, k \div LimbBits + 1) % (2 ^ (k % LimbBits)) = 0

\* u * 2^k
ShiftLeft(u, k) ==
    LET q == k \div LimbBits
        r == k % LimbBits
    IN  Strip([j \in 1 .. Len(u) + q + 1 |->
                 (Limb(u, j - q) % (2 ^ (LimbBits - r))) * (2 ^ r)
                 + Limb(u, j - q - 1) \div (2 ^ (LimbBits - r))])

\* u / 2^k, rounded down
ShiftRight(u, k) ==
    LET q == k \div LimbBits
        r == k % LimbBits
    IN  IF q >= Len(u) THEN << >>
        ELSE Strip([j \in 1 .. Len(u) - q |->
                      Limb(u, j + q) \div (2 ^ r)
                      + (Limb(u, j + q + 1) % (2 ^ r)) * (2 ^ (LimbBits - r))])

\* u + v + carry, from digit j on
RECURSIVE AddFrom(_, _, _, _)
AddFrom(u, v, j, carry) ==
    IF j > Len(u) /\ j > Len(v)
      THEN (IF carry = 1 THEN <<1>> ELSE << >>)
      ELSE <<(Limb(u, j) + Limb(v, j) + carry) % Base>>
           \o AddFrom(u, v, j + 1, (Limb(u, j) + Limb(v, j) + carry) \div Base)

\* u + v
AddBig(u, v) == AddFrom(u, v, 1, 0)

\* u >= v
GeqBig(u, v) ==
    \/ Len(u) > Len(v)
    \/ /\ Len(u) = Len(v)
       /\ \A j \in 1 .. Len(u) :
            (u[j] < v[j]) => \E k \in j + 1 .. Len(u) : u[k] > v[k]

\* u - v - borrow, from digit j on, for u >= v
RECURSIVE SubFrom(_, _, _, _)
SubFrom(u, v, j, borrow) ==
    IF j > Len(u) THEN << >>
    ELSE <<(Limb(u, j) - Limb(v, j) - borrow + Base) % Base>>
         \o SubFrom(u, v, j + 1, IF Limb(u, j) - Limb(v, j) - borrow < 0 THEN 1 ELSE 0)

\* u - v, for u >= v
SubBig(u, v) == Strip(SubFrom(u, v, 1, 0))

\* u * m + carry, from digit j on
RECURSIVE MulFrom(_, _, _, _)
MulFrom(u, m, j, carry) ==
    IF j > Len(u) THEN BigOf(carry)
    ELSE <<(u[j] * m + carry) % Base>> \o MulFrom(u, m, j + 1, (u[j] * m + carry) \div Base)

\* u * m, for a natural number m < 2^15
MulSmall(u, m) == IF m = 0 THEN << >> ELSE MulFrom(u, m, 1, 0)

\* the digits j, j - 1, ..., 1 of (rem * Base^j + u) / m, for rem < m < 2^15
RECURSIVE DivFrom(_, _, _, _)
DivFrom(u, m, j, rem) ==
    IF j = 0 THEN << >>
    ELSE DivFrom(u, m, j - 1, (rem * Base + u[j]) % m) \o <<(rem * Base + u[j]) \div m>>

\* u % m
RECURSIVE ModFrom(_, _, _, _)
ModFrom(u, m, j, rem) ==
    IF j = 0 THEN rem ELSE ModFrom(u, m, j - 1, (rem * Base + u[j]) % m)

\* bits * 2^e rounded to a float64 mantissa, ties to even
RoundToDouble(bits, e) ==
    IF BitLen(bits) <= Mantissa THEN [bits |-> bits, e |-> e]
    ELSE LET drop == BitLen(bits) - Mantissa
             kept == ShiftRight(bits, drop)
             guard == BitAt(bits, drop)
             sticky == ~LowBitsZero(bits, drop - 1)
             up == guard = 1 /\ (sticky \/ BitAt(kept, 1) = 1)
             r == IF up THEN AddBig(kept, <<1>>) ELSE kept
         IN  IF BitLen(r) > Mantissa
               THEN [bits |-> ShiftRight(r, 1), e |-> e + drop + 1]
               ELSE [bits |-> r, e |-> e + drop]

\* float64(k) / float64(n), for 0 <= k <= n and 0 < n < 2^15
DivFloat(k, n) ==
    IF k = 0 THEN [neg |-> FALSE, bits |-> << >>, e |-> 0]
    ELSE LET s == CHOOSE sh \in 0 .. LimbBits :
                      /\ k * (2 ^ sh) >= n
                      /\ \A j \in 0 .. sh - 1 : k * (2 ^ j) < n
             num == ShiftLeft(BigOf(k), s + Mantissa - 1)
             q == Strip(DivFrom(num, n, Len(num), 0))
             rest == ModFrom(num, n, Len(num), 0)
             up == 2 * rest > n \/ (2 * rest = n /\ BitAt(q, 1) = 1)
             r == IF up THEN AddBig(q, <<1>>) ELSE q
         IN  IF BitLen(r) > Mantissa
               THEN [neg |-> FALSE, bits |-> ShiftRight(r, 1), e |-> 1 - s - Mantissa + 1]
               ELSE [neg |-> FALSE, bits |-> r, e |-> 1 - s - Mantissa]

\* t * float64(d), for a float64 t and an integer d, |d| < 2^15
MulFloat(t, d) ==
    LET r == RoundToDouble(MulSmall(t.bits, Abs(d)), t.e)
    IN  [neg |-> r.bits /= << >> /\ (t.neg /= (d < 0)), bits |-> r.bits, e |-> r.e]

\* float64(a) + p, for an integer a and a float64 p
AddFloat(a, p) ==
    IF p.bits = << >> THEN [neg |-> a < 0, bits |-> BigOf(Abs(a)), e |-> 0]
    ELSE LET f == IF p.e < 0 THEN -p.e ELSE 0
             A == ShiftLeft(BigOf(Abs(a)), f)
             P == ShiftLeft(p.bits, p.e + f)
             same == (a < 0) = p.neg
             mag == IF same \/ a = 0 THEN AddBig(A, P)
                    ELSE IF GeqBig(A, P) THEN SubBig(A, P) ELSE SubBig(P, A)
             neg == IF same \/ a = 0 THEN p.neg
                    ELSE IF GeqBig(A, P) THEN a < 0 ELSE p.neg
             r == RoundToDouble(mag, -f)
         IN  [neg |-> neg /\ r.bits /= << >>, bits |-> r.bits, e |-> r.e]

\* int(v): the float64 v truncated toward zero
IntOfFloat(v) ==
    LET m == IF v.e >= 0 THEN ValueOf(ShiftLeft(v.bits, v.e))
             ELSE ValueOf(ShiftRight(v.bits, -v.e))
    IN  IF v.neg THEN -m ELSE m

\* int(float64(a) + (float64(n) / float64(steps)) * float64(d))
Interpolate(a, d, n, steps) ==
    IntOfFloat(AddFloat(a, MulFloat(DivFloat(n, steps), d)))

(***************************************************************************)
(* gerber.go: the data model.                                              *)
(***************************************************************************)
ApertureCircle == "C"
ApertureRect == "R"
ApertureObround == "O"

Aperture(type, modifiers) == [Type |-> type, Modifiers |-> modifiers]
MacroPrimitive(code, modifiers) == [Code |-> code, Modifiers |-> modifiers]

\* one unit of the file (mm or inch) in model units
Unit == 10000

\* Go's integer division and Go's int(float64): both truncate toward zero
TruncDiv(n, m) == IF n >= 0 THEN n \div m ELSE -((-n) \div m)

\* Render's scale, as the model units that make one pixel: scale = dpi for an inch
\* file and dpi / 25.4 for a millimetre file
UnitsPerPixel(units) == (IF units = "IN" THEN Unit ELSE 254000) \div DPI

\* int(v * scale) for a length v in model units
ToPixels(v, units) == TruncDiv(v, UnitsPerPixel(units))

(***************************************************************************)
(* The variables of the operations that are not running.                   *)
(***************************************************************************)
LineIdle ==
    /\ line = [x1 |-> 0, y1 |-> 0, x2 |-> 0, y2 |-> 0,
               ap |-> Aperture(ApertureCircle, << >>), units |-> "MM"]
    /\ i = 0
    /\ centres = << >>

MeshIdle ==
    /\ StencilHeight = 2000
    /\ y = 0
    /\ x = 0
    /\ startX = -1
    /\ triangles = << >>

\* NewGerberFile: no command, empty tables, millimetres
NewGerberFile ==
    [Commands |-> << >>,
     State |-> [Apertures |-> << >>, Macros |-> << >>, Units |-> "MM",
                FormatX |-> [Integer |-> 0, Decimal |-> 0],
                FormatY |-> [Integer |-> 0, Decimal |-> 0]]]

RenderIdle ==
    /\ bounds = << >>
    /\ b = << >>
    /\ cmdIdx = 0
    /\ curX = 0
    /\ curY = 0
    /\ curDCode = 0

CoordIdle ==
    /\ axis = "X"
    /\ valStr = ""
    /\ coord = <<0, 0>>

ParseIdle ==
    /\ lines = << >>
    /\ scanned = 0
    /\ readFailed = FALSE
    /\ macroName = ""
    /\ primitives = << >>
    /\ ret = << >>
    /\ CoordIdle

(***************************************************************************)
(* gerber.go: stamping.  A stamp is the set of pixels it sets to white;    *)
(* img.Set and draw.Draw ignore the pixels outside the image.              *)
(***************************************************************************)
\* the pixels of the image: image.Rect(0, 0, w, h), which swaps a negative size
InImage(im, px, py) ==
    /\ (IF im.w >= 0 THEN 0 <= px /\ px < im.w ELSE im.w <= px /\ px < 0)
    /\ (IF im.h >= 0 THEN 0 <= py /\ py < im.h ELSE im.h <= py /\ py < 0)

\* the image with the pixels of stamp set to white
SetWhite(im, stamp) ==
    [im EXCEPT !.white = @ \cup { px \in stamp : InImage(im, px[1], px[2]) }]

drawCircle(x0, y0, r) ==
    { <<x0 + cx, y0 + cy>> : <<cx, cy>> \in
        { pt \in (-r .. r) \X (-r .. r) : pt[1] * pt[1] + pt[2] * pt[2] <= r * r } }

\* the pixels of image.Rect(rx0, ry0, rx1, ry1), which swaps its corners into order
RectPixels(rx0, ry0, rx1, ry1) ==
    LET lx == IF rx0 <= rx1 THEN rx0 ELSE rx1
        hx == IF rx0 <= rx1 THEN rx1 ELSE rx0
        ly == IF ry0 <= ry1 THEN ry0 ELSE ry1
        hy == IF ry0 <= ry1 THEN ry1 ELSE ry0
    IN  (lx .. hx - 1) \X (ly .. hy - 1)

\* math.Mod(rot, 360), then + 360 when negative: the rotation in [0, 360)
NormalizeRotation(rot) ==
    LET m == IF rot >= 0 THEN rot % (360 * Unit) ELSE -((-rot) % (360 * Unit))
    IN  IF m < 0 THEN m + 360 * Unit ELSE m

\* one primitive of a macro, stamped for the aperture at (px0, py0)
drawPrimitive(px0, py0, prim, units) ==
    LET M == prim.Modifiers
    IN  CASE prim.Code = 1 /\ Len(M) >= 4 ->
               drawCircle(px0 + ToPixels(M[3], units), py0 - ToPixels(M[4], units),
                          TruncDiv(M[2], 2 * UnitsPerPixel(units)))
          [] prim.Code = 21 /\ Len(M) >= 6 ->
               LET rot == NormalizeRotation(M[6])
                   swap == Abs(rot - 90 * Unit) < Unit \/ Abs(rot - 270 * Unit) < Unit
                   w == ToPixels(IF swap THEN M[3] ELSE M[2], units)
                   h == ToPixels(IF swap THEN M[2] ELSE M[3], units)
                   rx == px0 + ToPixels(M[4], units)
                   ry == py0 - ToPixels(M[5], units)
               IN  RectPixels(rx - TruncDiv(w, 2), ry - TruncDiv(h, 2),
                              rx + TruncDiv(w, 2), ry + TruncDiv(h, 2))
          [] OTHER -> {}

\* the pixels drawAperture sets for aperture ap at pixel (px0, py0)
drawAperture(px0, py0, ap, macros, units) ==
    CASE ap.Type = ApertureCircle ->
           IF Len(ap.Modifiers) > 0
             THEN drawCircle(px0, py0, TruncDiv(ap.Modifiers[1], 2 * UnitsPerPixel(units)))
             ELSE {}
      [] ap.Type \in {ApertureRect, ApertureObround} ->
           IF Len(ap.Modifiers) >= 2
             THEN LET w == ToPixels(ap.Modifiers[1], units)
                      h == ToPixels(ap.Modifiers[2], units)
                  IN  RectPixels(px0 - TruncDiv(w, 2), py0 - TruncDiv(h, 2),
                                 px0 + TruncDiv(w, 2), py0 + TruncDiv(h, 2))
             ELSE {}
      [] OTHER ->
           IF ap.Type \in DOMAIN macros
             THEN UNION { drawPrimitive(px0, py0, macros[ap.Type][n], units) :
                            n \in 1 .. Len(macros[ap.Type]) }
             ELSE {}

\* drawLine: steps := int(math.Sqrt(dx*dx + dy*dy))
LineSteps(dx, dy) ==
    CHOOSE r \in 0 .. Abs(dx) + Abs(dy) :
        r * r <= dx * dx + dy * dy /\ (r + 1) * (r + 1) > dx * dx + dy * dy

\* drawLine: the centre of the stamp of iteration n
LineCentre(lx1, ly1, lx2, ly2, n) ==
    LET steps == LineSteps(lx2 - lx1, ly2 - ly1)
    IN  <<Interpolate(lx1, lx2 - lx1, n, steps), Interpolate(ly1, ly2 - ly1, n, steps)>>

\* drawLine as a whole: the pixels it sets
drawLine(lx1, ly1, lx2, ly2, ap, macros, units) ==
    LET steps == LineSteps(lx2 - lx1, ly2 - ly1)
    IN  IF steps = 0 THEN drawAperture(lx1, ly1, ap, macros, units)
        ELSE UNION { drawAperture(LineCentre(lx1, ly1, lx2, ly2, n)[1],
                                  LineCentre(lx1, ly1, lx2, ly2, n)[2], ap, macros, units) :
                       n \in 0 .. steps }

(***************************************************************************)
(* gerber.go: CalculateBounds.  A pointer field of a command (X, Y, D) is  *)
(* << >> for nil and <<v>> for a pointer to v.                             *)
(***************************************************************************)
GerberCommand(type, cx, cy, cd) == [Type |-> type, X |-> cx, Y |-> cy, D |-> cd]

Bounds(minX, minY, maxX, maxY) == [MinX |-> minX, MinY |-> minY, MaxX |-> maxX, MaxY |-> maxY]

\* the 1e9 that CalculateBounds starts its minima from (and -1e9 its maxima), in model
\* units: beyond every coordinate of the model
Far == 1000000000
\* the default extent, 10, and the padding, 2.0, in file units
DefaultExtent == 10
Padding == 2

updateBounds(bd, px, py) ==
    Bounds(IF px < bd.MinX THEN px ELSE bd.MinX,
           IF py < bd.MinY THEN py ELSE bd.MinY,
           IF px > bd.MaxX THEN px ELSE bd.MaxX,
           IF py > bd.MaxY THEN py ELSE bd.MaxY)

\* a pen that falls back to 0 on an omitted axis
PenAfterCommand_Reset(cmd, px, py) ==
    <<IF cmd.X /= << >> THEN cmd.X[1] ELSE 0, IF cmd.Y /= << >> THEN cmd.Y[1] ELSE 0>>

\* the pen after command cmd, from the pen (px, py)
PenAfterCommand(cmd, px, py) ==
    <<IF cmd.X /= << >> THEN cmd.X[1] ELSE px, IF cmd.Y /= << >> THEN cmd.Y[1] ELSE py>>

\* a loop that takes the position of every command with a coordinate, moves
\* included, for a bound contributor
RECURSIVE BoundsLoop_MovesCount(_, _, _, _, _)
BoundsLoop_MovesCount(cmds, k, px, py, bd) ==
    IF k > Len(cmds) THEN bd
    ELSE LET cur == PenAfterCommand(cmds[k], px, py)
             nbd == IF cmds[k].Type \in {"FLASH", "MOVE"} THEN updateBounds(bd, cur[1], cur[2])
                    ELSE IF cmds[k].Type = "DRAW"
                           THEN updateBounds(updateBounds(bd, px, py), cur[1], cur[2])
                           ELSE bd
         IN  BoundsLoop_MovesCount(cmds, k + 1, cur[1], cur[2], nbd)

\* the loop of CalculateBounds from command k on, with the pen at (px, py)
RECURSIVE BoundsLoop(_, _, _, _, _)
BoundsLoop(cmds, k, px, py, bd) ==
    IF k > Len(cmds) THEN bd
    ELSE LET cur == PenAfterCommand(cmds[k], px, py)
             nbd == IF cmds[k].Type = "FLASH" THEN updateBounds(bd, cur[1], cur[2])
                    ELSE IF cmds[k].Type = "DRAW"
                           THEN updateBounds(updateBounds(bd, px, py), cur[1], cur[2])
                           ELSE bd
         IN  BoundsLoop(cmds, k + 1, cur[1], cur[2], nbd)

\* the bounds without the default extent of a file with no geometry
CalculateBounds_NoDefault(cmds) ==
    LET found == BoundsLoop(cmds, 1, 0, 0, Bounds(Far, Far, -Far, -Far))
    IN  Bounds(found.MinX - Padding * Unit, found.MinY - Padding * Unit,
               found.MaxX + Padding * Unit, found.MaxY + Padding * Unit)

CalculateBounds(cmds) ==
    LET found == BoundsLoop(cmds, 1, 0, 0, Bounds(Far, Far, -Far, -Far))
        bd == IF found.MinX = Far
                THEN Bounds(0, 0, DefaultExtent * Unit, DefaultExtent * Unit)
                ELSE found
    IN  Bounds(bd.MinX - Padding * Unit, bd.MinY - Padding * Unit,
               bd.MaxX + Padding * Unit, bd.MaxY + Padding * Unit)

(***************************************************************************)
(* gerber.go: Render, one command of the replay at a time.  The products   *)
(* with scale are taken over the rationals and truncated.                  *)
(***************************************************************************)
\* the largest int of a 32-bit build
MaxInt32 == 2147483647

\* image.NewRGBA panics when the length of the pixel buffer, 4 * w * h, overflows int
PixelBufferOverflows(w, h) ==
    Abs(w) > 0 /\ Abs(h) > (MaxInt32 \div 4) \div Abs(w)

\* the bounds Render uses: its argument, or the computed ones when it is nil
RenderBounds == IF bounds /= << >> THEN bounds[1] ELSE CalculateBounds(gf.Commands)

\* toPix: file coordinates to the pixel, with the Y axis flipped
toPix(bd, units, px, py) ==
    <<ToPixels(px - bd.MinX, units),
      ToPixels((bd.MaxY - bd.MinY) - (py - bd.MinY), units)>>

\* the bounds, the size and the black image; a pixel buffer too long for a 32-bit int
\* panics in image.NewRGBA on a 32-bit build and is allocated on a 64-bit one
RenderStart ==
    /\ pc = "render"
    /\ LET bd == RenderBounds
           imgWidth == ToPixels(bd.MaxX - bd.MinX, gf.State.Units)
           imgHeight == ToPixels(bd.MaxY - bd.MinY, gf.State.Units)
       IN  /\ b' = bd
           /\ \/ /\ pc' = "replay"
                 /\ img' = [w |-> imgWidth, h |-> imgHeight, white |-> {}]
              \/ /\ PixelBufferOverflows(imgWidth, imgHeight)
                 /\ pc' = "panic"
                 /\ UNCHANGED img
    /\ cmdIdx' = 1
    /\ curX' = 0
    /\ curY' = 0
    /\ curDCode' = 0
    /\ UNCHANGED <<gf, parseVars, bounds, meshVars, lineVars>>

\* the field after a draw or a flash from pixel `from` to pixel `to`: a missing table
\* entry stamps nothing
ReplayField(im, type, code, state, from, to) ==
    IF code \notin DOMAIN state.Apertures THEN im
    ELSE IF type = "FLASH"
      THEN SetWhite(im, drawAperture(to[1], to[2], state.Apertures[code],
                                     state.Macros, state.Units))
    ELSE IF type = "DRAW"
      THEN SetWhite(im, drawLine(from[1], from[2], to[1], to[2], state.Apertures[code],
                                 state.Macros, state.Units))
    ELSE im

\* a replay that skips a draw or a flash of a missing aperture before the pen moves
RenderCommand_SkipPen ==
    /\ pc = "replay"
    /\ cmdIdx <= Len(gf.Commands)
    /\ LET cmd == gf.Commands[cmdIdx]
       IN  IF cmd.Type = "APERTURE"
             THEN /\ curDCode' = cmd.D[1]
                  /\ UNCHANGED <<img, curX, curY>>
             ELSE IF cmd.Type /= "MOVE" /\ curDCode \notin DOMAIN gf.State.Apertures
               THEN UNCHANGED <<img, curX, curY, curDCode>>
               ELSE LET cur == PenAfterCommand(cmd, curX, curY)
                    IN  /\ curX' = cur[1]
                        /\ curY' = cur[2]
                        /\ UNCHANGED curDCode
                        /\ img' = ReplayField(img, cmd.Type, curDCode, gf.State,
                                      toPix(b, gf.State.Units, curX, curY),
                                      toPix(b, gf.State.Units, cur[1], cur[2]))
    /\ cmdIdx' = cmdIdx + 1
    /\ UNCHANGED <<pc, gf, parseVars, bounds, b, meshVars, lineVars>>

\* one iteration of the replay loop
RenderCommand ==
    /\ pc = "replay"
    /\ cmdIdx <= Len(gf.Commands)
    /\ LET cmd == gf.Commands[cmdIdx]
       IN  IF cmd.Type = "APERTURE"
             THEN /\ curDCode' = cmd.D[1]
                  /\ UNCHANGED <<img, curX, curY>>
             ELSE LET cur == PenAfterCommand(cmd, curX, curY)
                  IN  /\ curX' = cur[1]
                      /\ curY' = cur[2]
                      /\ UNCHANGED curDCode
                      /\ img' = ReplayField(img, cmd.Type, curDCode, gf.State,
                                    toPix(b, gf.State.Units, curX, curY),
                                    toPix(b, gf.State.Units, cur[1], cur[2]))
    /\ cmdIdx' = cmdIdx + 1
    /\ UNCHANGED <<pc, gf, parseVars, bounds, b, meshVars, lineVars>>

\* the end of the replay: return img
RenderReturn ==
    /\ pc = "replay"
    /\ cmdIdx > Len(gf.Commands)
    /\ pc' = "rendered"
    /\ UNCHANGED <<img, gf, parseVars, meshVars, lineVars, renderVars>>

(***************************************************************************)
(* The inputs of Render: a parsed file with at most MaxCmds commands, as   *)
(* ParseGerber builds them, and the bounds argument.                       *)
(***************************************************************************)
\* the coordinate of the model that is not 0: 3 pixels at either unit
Coord(units) == IF units = "IN" THEN 30 ELSE 1000

\* the coordinate of the far corner of a large board: 20 in, 600 mm
FarCoord(units) == (IF units = "IN" THEN 20 ELSE 600) * Unit

\* a circle of 3 pixels across (radius 1) at either unit
SmallCircle(units) == Aperture(ApertureCircle, <<IF units = "IN" THEN 20 ELSE 600>>)

\* a macro of a circle (code 1) and a centred rectangle turned by 90 degrees (code 21)
MacroTable == ("PAD" :> << MacroPrimitive(1, <<Unit, 600, 0, 0>>),
                           MacroPrimitive(21, <<Unit, 600, 1100, 0, 0, 90 * Unit>>) >>)

\* aperture 10 is a circle, aperture 12 a rectangle (inch file) or the macro
\* (millimetre file), and aperture 11 is not defined
ApertureTable(units) ==
    (10 :> SmallCircle(units))
    @@ (12 :> IF units = "IN" THEN Aperture(ApertureRect, <<20, 40>>)
                               ELSE Aperture("PAD", << >>))

\* the selections of the three codes, and each operation with X alone, with Y alone
\* and with both axes back at 0
CommandSet(units) ==
    { GerberCommand("APERTURE", << >>, << >>, <<c>>) : c \in {10, 11, 12} }
    \cup { GerberCommand(t[1], axes[1], axes[2], <<t[2]>>) :
             t \in { <<"DRAW", 1>>, <<"MOVE", 2>>, <<"FLASH", 3>> },
             axes \in { <<<<Coord(units)>>, << >>>>, <<<< >>, <<Coord(units)>>>>,
                        <<<<0>>, <<0>>>> } }

\* the flashes at two opposite corners of a large board
FarFlashes(units) ==
    { GerberCommand("FLASH", <<c>>, <<c>>, <<3>>) : c \in {0, FarCoord(units)} }

\* the tables of a parsed file of the given units
ParsedState(units) ==
    [NewGerberFile.State EXCEPT
       !.Apertures = ApertureTable(units), !.Macros = MacroTable, !.Units = units,
       !.FormatX = [Integer |-> 2, Decimal |-> 4],
       !.FormatY = [Integer |-> 2, Decimal |-> 4]]

\* the command lists of length n of a file of the given units
CommandLists(units, n) ==
    [1 .. n -> CommandSet(units)]
    \cup (IF n \in 1 .. 2 THEN [1 .. n -> FarFlashes(units)] ELSE {})

\* the bounds overrides: a small board and a large one
Overrides == { Bounds(0, 0, e * Unit, e * Unit) : e \in {1, 600} }

\* gf.Render(dpi, bounds): main.go passes no bounds (nil)
InitRender ==
    /\ pc = "render"
    /\ \E units \in {"MM", "IN"}, n \in 0 .. MaxCmds :
         \E cmds \in CommandLists(units, n) :
           gf = [Commands |-> cmds, State |-> ParsedState(units)]
    /\ bounds \in { << >> } \cup (IF Len(gf.Commands) <= 1
                                   THEN { <<o>> : o \in Overrides } ELSE {})
    /\ img = [w |-> 0, h |-> 0, white |-> {}]
    /\ b = << >>
    /\ cmdIdx = 0
    /\ curX = 0
    /\ curY = 0
    /\ curDCode = 0
    /\ MeshIdle
    /\ LineIdle
    /\ ParseIdle

NextRender == RenderStart \/ RenderCommand \/ RenderReturn

SpecRender == InitRender /\ [][NextRender]_vars

(***************************************************************************)
(* gerber.go: the text operations of ParseGerber.  A line is a string; a   *)
(* number read from the text is the exact decimal <<m, e>> = m * 10^-e     *)
(* with no trailing zero in m (the lengths of Render are these numbers in  *)
(* units of 10^-4).                                                        *)
(***************************************************************************)
\* str[from .. to], cut at the end of str
Slice(str, from, to) == SubSeq(str, from, IF to > Len(str) THEN Len(str) ELSE to)

Char(str, k) == Slice(str, k, k)

DigitValue ==
    ("0" :> 0) @@ ("1" :> 1) @@ ("2" :> 2) @@ ("3" :> 3) @@ ("4" :> 4)
    @@ ("5" :> 5) @@ ("6" :> 6) @@ ("7" :> 7) @@ ("8" :> 8) @@ ("9" :> 9)

\* \d
Digits == DOMAIN DigitValue

\* [A-Za-z]
Letters ==
    { "A", "B", "C", "D", "E", "F", "G", "H", "I", "J", "K", "L", "M",
      "N", "O", "P", "Q", "R", "S", "T", "U", "V", "W", "X", "Y", "Z",
      "a", "b", "c", "d", "e", "f", "g", "h", "i", "j", "k", "l", "m",
      "n", "o", "p", "q", "r", "s", "t", "u", "v", "w", "x", "y", "z" }

\* strings.HasPrefix, HasSuffix, TrimPrefix, TrimSuffix, Contains
HasPrefix(str, prefix) ==
    Len(str) >= Len(prefix) /\ Slice(str, 1, Len(prefix)) = prefix

HasSuffix(str, suffix) ==
    Len(str) >= Len(suffix) /\ Slice(str, Len(str) - Len(suffix) + 1, Len(str)) = suffix

TrimPrefix(str, prefix) ==
    IF HasPrefix(str, prefix) THEN Slice(str, Len(prefix) + 1, Len(str)) ELSE str

TrimSuffix(str, suffix) ==
    IF HasSuffix(str, suffix) THEN Slice(str, 1, Len(str) - Len(suffix)) ELSE str

Contains(str, sub) ==
    \E k \in 1 .. Len(str) - Len(sub) + 1 : Slice(str, k, k + Len(sub) - 1) = sub

\* the number of characters of str from position k on that lie in class
RECURSIVE RunLength(_, _, _)
RunLength(str, k, class) ==
    IF k <= Len(str) /\ Char(str, k) \in class
      THEN 1 + RunLength(str, k + 1, class)
      ELSE 0

\* str without the blanks at its end
RECURSIVE TrimRight(_)
TrimRight(str) ==
    IF str /= "" /\ Char(str, Len(str)) = " "
      THEN TrimRight(Slice(str, 1, Len(str) - 1))
      ELSE str

\* strings.TrimSpace; the blank is the only white space of the lines of the model
TrimSpace(str) ==
    TrimRight(Slice(str, RunLength(str, 1, {" "}) + 1, Len(str)))

\* strings.Split(str, sep) for a separator of one character
RECURSIVE Split(_, _)
Split(str, sep) ==
    LET n == RunLength(str, 1, { Char(str, k) : k \in 1 .. Len(str) } \ {sep})
    IN  IF n = Len(str) THEN <<str>>
        ELSE <<Slice(str, 1, n)>> \o Split(Slice(str, n + 2, Len(str)), sep)

\* the number that a string of digits writes
RECURSIVE DigitsValue(_)
DigitsValue(str) ==
    IF str = "" THEN 0
    ELSE 10 * DigitsValue(Slice(str, 1, Len(str) - 1)) + DigitValue[Char(str, Len(str))]

\* strconv.Atoi: an optional sign and digits; 0 and an error for anything else
Atoi(str) ==
    LET signed == Len(str) >= 1 /\ Char(str, 1) \in {"+", "-"}
        body == IF signed THEN Slice(str, 2, Len(str)) ELSE str
        ok == body /= "" /\ RunLength(body, 1, Digits) = Len(body)
    IN  [val |-> IF ~ok THEN 0
                 ELSE IF signed /\ Char(str, 1) = "-" THEN -DigitsValue(body)
                 ELSE DigitsValue(body),
         ok |-> ok]

\* the decimal m * 10^-e without trailing zeros
RECURSIVE Decimal(_, _)
Decimal(m, e) ==
    IF m = 0 THEN <<0, 0>>
    ELSE IF e > 0 /\ m % 10 = 0 THEN Decimal(m \div 10, e - 1)
    ELSE <<m, e>>

\* strconv.ParseFloat(str, 64) and the value it leaves on an error, 0: an optional
\* sign, then digits with at most one point and one digit or more.  The exponents,
\* hexadecimal, infinities and NaN of ParseFloat need characters that no line of the
\* model has.
ParseFloat(str) ==
    LET signed == Len(str) >= 1 /\ Char(str, 1) \in {"+", "-"}
        body == IF signed THEN Slice(str, 2, Len(str)) ELSE str
        whole == RunLength(body, 1, Digits)
        pointed == whole < Len(body) /\ Char(body, whole + 1) = "."
        frac == IF pointed THEN RunLength(body, whole + 2, Digits) ELSE 0
        ok == /\ whole + frac >= 1
              /\ whole + frac + (IF pointed THEN 1 ELSE 0) = Len(body)
        m == DigitsValue(Slice(body, 1, whole) \o Slice(body, whole + 2, Len(body)))
    IN  IF ~ok THEN <<0, 0>>
        ELSE Decimal(IF signed /\ Char(str, 1) = "-" THEN -m ELSE m, frac)

\* val / math.Pow(10, n): the quotient is exact in the decimals of the model
DivPow10(val, n) == Decimal(val[1], val[2] + n)

RECURSIVE Pow10(_)
Pow10(n) == IF n = 0 THEN 1 ELSE 10 * Pow10(n - 1)

\* int(val)
IntOfDecimal(val) == TruncDiv(val[1], Pow10(val[2]))

\* a format that scales a coordinate even when it is written with a point
parseCoordinate_AlwaysScaled(str, fmtSpec) ==
    DivPow10(ParseFloat(str), fmtSpec.Decimal)

parseCoordinate(str, fmtSpec) ==
    IF Contains(str, ".")
      THEN ParseFloat(str)
      ELSE DivPow10(ParseFloat(str), fmtSpec.Decimal)

\* reFS.FindStringSubmatch: << >> for no match, else the four digits
reFS(str) ==
    LET at(k) == /\ Slice(str, k, k + 5) = "%FSLAX"
                 /\ Char(str, k + 6) \in Digits
                 /\ Char(str, k + 7) \in Digits
                 /\ Char(str, k + 8) = "Y"
                 /\ Char(str, k + 9) \in Digits
                 /\ Char(str, k + 10) \in Digits
                 /\ Slice(str, k + 11, k + 12) = "*%"
        found == { k \in 1 .. Len(str) - 12 : at(k) }
    IN  IF found = {} THEN << >>
        ELSE LET k == Min(found)
             IN  <<Char(str, k + 6), Char(str, k + 7), Char(str, k + 9), Char(str, k + 10)>>

\* reAD.FindStringSubmatch: << >> for no match, else the code, the type and the
\* modifiers.  No class of the expression holds "*", so a match from position k ends
\* at the first "*" after it; the greedy groups take the longest code, then the
\* longest type, then the comma.
reAD(str) ==
    LET NameChars == Digits \cup Letters \cup {"_"}
        body(k) == RunLength(str, k + 4, NameChars \cup {",", "."})
        fits(k, dl, nl, cm) ==
            /\ cm = 1 => Char(str, k + 4 + dl + nl) = ","
            /\ RunLength(str, k + 4 + dl + nl + cm, Digits \cup {".", "X"})
                 = body(k) - dl - nl - cm
        types(k, dl) ==
            { nl \in 1 .. RunLength(str, k + 4 + dl, NameChars) :
                \E cm \in {0, 1} : fits(k, dl, nl, cm) }
        codes(k) ==
            { dl \in 1 .. RunLength(str, k + 4, Digits) : types(k, dl) /= {} }
        at(k) == /\ Slice(str, k, k + 3) = "%ADD"
                 /\ Slice(str, k + 4 + body(k), k + 5 + body(k)) = "*%"
                 /\ codes(k) /= {}
        found == { k \in 1 .. Len(str) - 7 : at(k) }
    IN  IF found = {} THEN << >>
        ELSE LET k == Min(found)
                 dl == Max(codes(k))
                 nl == Max(types(k, dl))
                 cm == IF fits(k, dl, nl, 1) THEN 1 ELSE 0
                 from == k + 4
             IN  <<Slice(str, from, from + dl - 1),
                   Slice(str, from + dl, from + dl + nl - 1),
                   Slice(str, from + dl + nl + cm, from + body(k) - 1)>>

\* reCoord.FindAllStringSubmatch from position k on: the matches <<letter, value>>,
\* leftmost first, each value as long as it can be
RECURSIVE reCoord(_, _)
reCoord(str, k) ==
    IF k >= Len(str) THEN << >>
    ELSE LET n == RunLength(str, k + 1, Digits \cup {".", "-"})
         IN  IF Char(str, k) \in {"X", "Y", "D"} /\ n >= 1
               THEN <<<<Char(str, k), Slice(str, k + 1, k + n)>>>> \o reCoord(str, k + n + 1)
               ELSE reCoord(str, k + 1)

(***************************************************************************)
(* gerber.go: ParseGerber, one scanner.Scan() at a time.                   *)
(***************************************************************************)
\* the directive of a line that starts with "%" and is no aperture macro
Directive(text, state) ==
    IF HasPrefix(text, "%FS")
      THEN LET matches == reFS(text)
           IN  IF matches = << >> THEN state
               ELSE [state EXCEPT
                       !.FormatX = [Integer |-> Atoi(matches[1]).val,
                                    Decimal |-> Atoi(matches[2]).val],
                       !.FormatY = [Integer |-> Atoi(matches[3]).val,
                                    Decimal |-> Atoi(matches[4]).val]]
    ELSE IF HasPrefix(text, "%AD")
      THEN LET matches == reAD(text)
           IN  IF matches = << >> THEN state
               ELSE LET parts == IF matches[3] = "" THEN << >> ELSE Split(matches[3], "X")
                        mods == [k \in 1 .. Len(parts) |-> ParseFloat(parts[k])]
                    IN  [state EXCEPT
                           !.Apertures = (Atoi(matches[1]).val :> Aperture(matches[2], mods))
                                         @@ @]
    ELSE IF HasPrefix(text, "%MO")
      THEN [state EXCEPT !.Units = IF Contains(text, "IN") THEN "IN" ELSE "MM"]
    ELSE state

\* the command of the coordinate matches from the n-th on, built on cmd
RECURSIVE CoordCommand(_, _, _, _)
CoordCommand(matches, n, cmd, state) ==
    IF n > Len(matches) THEN cmd
    ELSE LET letter == matches[n][1]
             str == matches[n][2]
             d == IntOfDecimal(ParseFloat(str))
             next ==
               IF letter = "X"
                 THEN [cmd EXCEPT !.X = <<parseCoordinate(str, state.FormatX)>>]
               ELSE IF letter = "Y"
                 THEN [cmd EXCEPT !.Y = <<parseCoordinate(str, state.FormatY)>>]
               ELSE [cmd EXCEPT !.D = <<d>>,
                                !.Type = IF d = 1 THEN "DRAW"
                                         ELSE IF d = 2 THEN "MOVE"
                                         ELSE IF d = 3 THEN "FLASH"
                                         ELSE @]
         IN  CoordCommand(matches, n + 1, next, state)

\* the commands of the parts of a line from the n-th on
RECURSIVE PartCommands(_, _, _)
PartCommands(parts, n, state) ==
    IF n > Len(parts) THEN << >>
    ELSE LET part == TrimSpace(parts[n])
             dCode == Atoi(Slice(part, 2, Len(part)))
             matches == reCoord(part, 1)
             cmds ==
               IF part = "" THEN << >>
               ELSE IF HasPrefix(part, "D") /\ Len(part) >= 2 /\ dCode.ok /\ dCode.val >= 10
                 THEN <<GerberCommand("APERTURE", << >>, << >>, <<dCode.val>>)>>
               ELSE IF Len(matches) > 0
                 THEN <<CoordCommand(matches, 1,
                                     GerberCommand("MOVE", << >>, << >>, << >>), state)>>
               ELSE << >>
         IN  cmds \o PartCommands(parts, n + 1, state)

\* the commands of a line that does not start with "%"
StatementCommands(text, state) == PartCommands(Split(text, "*"), 1, state)

\* os.Open: the file, or an error and the return of (nil, err)
Open ==
    /\ pc = "open"
    /\ \/ /\ pc' = "scan"
          /\ UNCHANGED ret
       \/ /\ pc' = "parsed"
          /\ ret' = [gf |-> << >>, err |-> <<"open">>]
    /\ UNCHANGED <<img, gf, lines, scanned, readFailed, macroName, primitives,
                   axis, valStr, coord, meshVars, lineVars, renderVars>>

\* a read of the file fails: every later Scan returns false, scanner.Err() /= nil
ReadError ==
    /\ pc \in {"scan", "macro"}
    /\ ~readFailed
    /\ readFailed' = TRUE
    /\ UNCHANGED <<pc, img, gf, lines, scanned, macroName, primitives, ret,
                   axis, valStr, coord, meshVars, lineVars, renderVars>>

\* one iteration of the outer loop: a line of the file, up to the inner loop when
\* the line opens an aperture macro
ScanLine ==
    /\ pc = "scan"
    /\ ~readFailed
    /\ scanned < Len(lines)
    /\ scanned' = scanned + 1
    /\ LET text == TrimSpace(lines[scanned + 1])
       IN  IF text = ""
             THEN UNCHANGED <<pc, gf, macroName, primitives>>
           ELSE IF HasPrefix(text, "%AM")
             THEN /\ pc' = "macro"
                  /\ macroName' = TrimSuffix(TrimPrefix(text, "%AM"), "*")
                  /\ primitives' = << >>
                  /\ UNCHANGED gf
           ELSE IF HasPrefix(text, "%")
             THEN /\ gf' = [gf EXCEPT !.State = Directive(text, gf.State)]
                  /\ UNCHANGED <<pc, macroName, primitives>>
           ELSE /\ gf' = [gf EXCEPT !.Commands = @ \o StatementCommands(text, gf.State)]
                /\ UNCHANGED <<pc, macroName, primitives>>
    /\ UNCHANGED <<img, lines, readFailed, ret, axis, valStr, coord,
                   meshVars, lineVars, renderVars>>

\* the macro of the inner loop, stored under its name
StoreMacro == [gf EXCEPT !.State.Macros = (macroName :> primitives) @@ @]

\* an inner loop that takes every line that ends with "%" for the end of the block
ScanMacroLine_AnyPercent ==
    /\ pc = "macro"
    /\ ~readFailed
    /\ scanned < Len(lines)
    /\ scanned' = scanned + 1
    /\ IF HasSuffix(TrimSpace(lines[scanned + 1]), "%")
         THEN /\ gf' = StoreMacro
              /\ pc' = "scan"
              /\ UNCHANGED primitives
         ELSE /\ primitives' = Append(primitives, MacroPrimitive(0, << >>))
              /\ UNCHANGED <<pc, gf>>
    /\ UNCHANGED <<img, lines, readFailed, macroName, ret, axis, valStr, coord,
                   meshVars, lineVars, renderVars>>

\* one iteration of the inner loop: a line of the macro, or the "%" that ends it
ScanMacroLine ==
    /\ pc = "macro"
    /\ ~readFailed
    /\ scanned < Len(lines)
    /\ scanned' = scanned + 1
    /\ LET mLine == TrimSpace(lines[scanned + 1])
           parts == Split(TrimSuffix(mLine, "*"), ",")
           mods == [k \in 1 .. Len(parts) - 1 |-> ParseFloat(parts[k + 1])]
       IN  IF mLine = "%"
             THEN /\ gf' = StoreMacro
                  /\ pc' = "scan"
                  /\ UNCHANGED primitives
             ELSE /\ primitives' = Append(primitives,
                                          MacroPrimitive(Atoi(parts[1]).val, mods))
                  /\ UNCHANGED <<pc, gf>>
    /\ UNCHANGED <<img, lines, readFailed, macroName, ret, axis, valStr, coord,
                   meshVars, lineVars, renderVars>>

\* the inner Scan returns false, at the end of the file or after a read error: the
\* macro is stored and the outer loop goes on
MacroScanEnd ==
    /\ pc = "macro"
    /\ readFailed \/ scanned = Len(lines)
    /\ gf' = StoreMacro
    /\ pc' = "scan"
    /\ UNCHANGED <<img, lines, scanned, readFailed, macroName, primitives, ret,
                   axis, valStr, coord, meshVars, lineVars, renderVars>>

\* the outer Scan returns false, at the end of the file or after a read error:
\* return gf, nil
ScanEnd ==
    /\ pc = "scan"
    /\ readFailed \/ scanned = Len(lines)
    /\ pc' = "parsed"
    /\ ret' = [gf |-> <<gf>>, err |-> << >>]
    /\ UNCHANGED <<img, gf, lines, scanned, readFailed, macroName, primitives,
                   axis, valStr, coord, meshVars, lineVars, renderVars>>

\* the lines of the files of the model
InputLines ==
    { "%FSLAX24Y23*%", "%MOIN*%", "%ADD10C,0.5*%", "%AMPAD*", "1,1,0.5,0,0*", "%",
      "D10*X1234Y5D03* ", "" }

\* ParseGerber(filename) on a file of at most MaxLines lines
InitParse ==
    /\ pc = "open"
    /\ \E n \in 0 .. MaxLines : lines \in [1 .. n -> InputLines]
    /\ gf = NewGerberFile
    /\ scanned = 0
    /\ readFailed = FALSE
    /\ macroName = ""
    /\ primitives = << >>
    /\ ret = << >>
    /\ CoordIdle
    /\ img = [w |-> 0, h |-> 0, white |-> {}]
    /\ MeshIdle
    /\ LineIdle
    /\ RenderIdle

NextParse == Open \/ ReadError \/ ScanLine \/ ScanMacroLine \/ MacroScanEnd \/ ScanEnd

SpecParse == InitParse /\ [][NextParse]_vars

(***************************************************************************)
(* gerber.go: one coordinate match of ParseGerber, case "X" and case "Y".  *)
(***************************************************************************)
ParseAxis ==
    /\ pc = "coord"
    /\ coord' = parseCoordinate(valStr, IF axis = "X" THEN gf.State.FormatX
                                                       ELSE gf.State.FormatY)
    /\ pc' = "coord_done"
    /\ UNCHANGED <<img, gf, lines, scanned, readFailed, macroName, primitives, ret,
                   axis, valStr, meshVars, lineVars, renderVars>>

\* the characters that reCoord takes into a value: [\d\.\-], with the digits 0 to 4
CoordChars == { "0", "1", "2", "3", "4", ".", "-" }

\* the strings of n characters
RECURSIVE CoordStrings(_)
CoordStrings(n) ==
    IF n = 0 THEN { "" }
    ELSE { str \o c : str \in CoordStrings(n - 1), c \in CoordChars }

\* the formats <<FormatX, FormatY>> that a %FS directive leaves, and that of a file
\* with none
Formats ==
    { <<[Integer |-> fx[1], Decimal |-> fx[2]], [Integer |-> fy[1], Decimal |-> fy[2]]>> :
        <<fx, fy>> \in { <<<<0, 0>>, <<0, 0>>>>, <<<<2, 4>>, <<2, 4>>>>,
                         <<<<2, 4>>, <<2, 3>>>>, <<<<3, 3>>, <<3, 2>>>>,
                         <<<<2, 1>>, <<2, 4>>>> } }

InitCoord ==
    /\ pc = "coord"
    /\ axis \in {"X", "Y"}
    /\ \E n \in 1 .. MaxLen : valStr \in CoordStrings(n)
    /\ \E fmt \in Formats :
         gf = [NewGerberFile EXCEPT !.State.FormatX = fmt[1], !.State.FormatY = fmt[2]]
    /\ coord = <<0, 0>>
    /\ lines = << >>
    /\ scanned = 0
    /\ readFailed = FALSE
    /\ macroName = ""
    /\ primitives = << >>
    /\ ret = << >>
    /\ img = [w |-> 0, h |-> 0, white |-> {}]
    /\ MeshIdle
    /\ LineIdle
    /\ RenderIdle

NextCoord == ParseAxis

SpecCoord == InitCoord /\ [][NextCoord]_vars

(***************************************************************************)
(* drawLine, one drawAperture call at a time.                              *)
(***************************************************************************)
\* steps == 0: one stamp at the start point
LinePoint ==
    /\ pc = "line"
    /\ LineSteps(line.x2 - line.x1, line.y2 - line.y1) = 0
    /\ img' = SetWhite(img, drawAperture(line.x1, line.y1, line.ap, << >>, line.units))
    /\ centres' = Append(centres, <<line.x1, line.y1>>)
    /\ pc' = "lined"
    /\ UNCHANGED <<gf, parseVars, meshVars, line, i, renderVars>>

\* one iteration of the loop
LineStep ==
    /\ pc = "line"
    /\ LineSteps(line.x2 - line.x1, line.y2 - line.y1) /= 0
    /\ i <= LineSteps(line.x2 - line.x1, line.y2 - line.y1)
    /\ LET c == LineCentre(line.x1, line.y1, line.x2, line.y2, i)
       IN  /\ img' = SetWhite(img, drawAperture(c[1], c[2], line.ap, << >>, line.units))
           /\ centres' = Append(centres, c)
    /\ i' = i + 1
    /\ UNCHANGED <<pc, gf, parseVars, meshVars, line, renderVars>>

\* the end of the loop
LineReturn ==
    /\ pc = "line"
    /\ LineSteps(line.x2 - line.x1, line.y2 - line.y1) /= 0
    /\ i > LineSteps(line.x2 - line.x1, line.y2 - line.y1)
    /\ pc' = "lined"
    /\ UNCHANGED <<img, gf, parseVars, meshVars, lineVars, renderVars>>

\* a circular aperture of 0.03 mm: one pixel across (radius 0)
LineApertures == { Aperture(ApertureCircle, <<300>>) }

\* a draw between any two pixels of a black field of (MaxPx + 1) x (MaxPy + 1) pixels
InitLine ==
    /\ pc = "line"
    /\ img = [w |-> MaxPx + 1, h |-> MaxPy + 1, white |-> {}]
    /\ \E ex1 \in 0 .. MaxPx, ex2 \in 0 .. MaxPx, ey1 \in 0 .. MaxPy, ey2 \in 0 .. MaxPy,
          eap \in LineApertures :
         line = [x1 |-> ex1, y1 |-> ey1, x2 |-> ex2, y2 |-> ey2, ap |-> eap, units |-> "MM"]
    /\ i = 0
    /\ centres = << >>
    /\ MeshIdle
    /\ gf = NewGerberFile
    /\ RenderIdle
    /\ ParseIdle

NextLine == LinePoint \/ LineStep \/ LineReturn

SpecLine == InitLine /\ [][NextLine]_vars

\* C8: the stamp centres of a draw begin at the start pixel and end at the end
\* pixel, and two consecutive centres differ by at most one pixel in each axis.
C8_LineConnected ==
    /\ centres /= << >> => centres[1] = <<line.x1, line.y1>>
    /\ \A n \in 1 .. Len(centres) - 1 :
         /\ Abs(centres[n + 1][1] - centres[n][1]) <= 1
         /\ Abs(centres[n + 1][2] - centres[n][2]) <= 1
    /\ pc = "lined" => centres[Len(centres)] = <<line.x2, line.y2>>

(***************************************************************************)
(* main.go: the mesh extruder.                                             *)
(***************************************************************************)
Point(px, py, pz) == [X |-> px, Y |-> py, Z |-> pz]

\* addQuad(a, b, c, d): the two triangles of one face
addQuad(qa, qb, qc, qd) == << <<qa, qb, qc>>, <<qc, qd, qa>> >>

\* AddBox with the bottom face culled
AddBox_NoBottom(bx, by, w, h, zHeight) ==
    LET x0 == bx
        y0 == by
        x1 == bx + w
        y1 == by + h
        z1 == zHeight
        p000 == Point(x0, y0, 0)
        p100 == Point(x1, y0, 0)
        p110 == Point(x1, y1, 0)
        p010 == Point(x0, y1, 0)
        p001 == Point(x0, y0, z1)
        p101 == Point(x1, y0, z1)
        p111 == Point(x1, y1, z1)
        p011 == Point(x0, y1, z1)
    IN  addQuad(p101, p111, p011, p001)
        \o addQuad(p000, p100, p101, p001)
        \o addQuad(p100, p110, p111, p101)
        \o addQuad(p110, p010, p011, p111)
        \o addQuad(p010, p000, p001, p011)

\* the 12 triangles AddBox appends, in its order
AddBox(bx, by, w, h, zHeight) ==
    LET x0 == bx
        y0 == by
        x1 == bx + w
        y1 == by + h
        z0 == 0
        z1 == zHeight
        p000 == Point(x0, y0, z0)
        p100 == Point(x1, y0, z0)
        p110 == Point(x1, y1, z0)
        p010 == Point(x0, y1, z0)
        p001 == Point(x0, y0, z1)
        p101 == Point(x1, y0, z1)
        p111 == Point(x1, y1, z1)
        p011 == Point(x0, y1, z1)
    IN  addQuad(p000, p010, p110, p100)       \* Bottom
        \o addQuad(p101, p111, p011, p001)    \* Top
        \o addQuad(p000, p100, p101, p001)    \* Front
        \o addQuad(p100, p110, p111, p101)    \* Right
        \o addQuad(p110, p010, p011, p111)    \* Back
        \o addQuad(p010, p000, p001, p011)    \* Left

\* isSolid of a pixel: black (r, g, b all below the threshold); a white pixel is not
isSolid(im, px, py) == <<px, py>> \notin im.white

\* the AddBox call of a strip that starts at sx and ends before ex, in row py
StripBox(sx, ex, py) ==
    AddBox(sx * PixelToMM, py * PixelToMM, (ex - sx) * PixelToMM, PixelToMM, StencilHeight)

\* one iteration of the inner loop: the pixel (x, y)
MeshPixel ==
    /\ pc = "mesh"
    /\ y < img.h
    /\ x < img.w
    /\ IF isSolid(img, x, y)
         THEN /\ startX' = (IF startX = -1 THEN x ELSE startX)
              /\ UNCHANGED triangles
         ELSE IF startX /= -1
                THEN /\ triangles' = triangles \o StripBox(startX, x, y)
                     /\ startX' = -1
                ELSE UNCHANGED <<startX, triangles>>
    /\ x' = x + 1
    /\ UNCHANGED <<pc, img, gf, parseVars, StencilHeight, y, lineVars, renderVars>>

\* the end of a row without the box of a strip that reaches the last column
MeshRowEnd_NoFlush ==
    /\ pc = "mesh"
    /\ y < img.h
    /\ x = img.w
    /\ y' = y + 1
    /\ x' = 0
    /\ startX' = -1
    /\ UNCHANGED <<pc, img, gf, parseVars, StencilHeight, triangles, lineVars, renderVars>>

\* the end of a row: the strip that reaches the last column, then the next row
MeshRowEnd ==
    /\ pc = "mesh"
    /\ y < img.h
    /\ x = img.w
    /\ IF startX /= -1
         THEN triangles' = triangles \o StripBox(startX, img.w, y)
         ELSE UNCHANGED triangles
    /\ y' = y + 1
    /\ x' = 0
    /\ startX' = -1
    /\ UNCHANGED <<pc, img, gf, parseVars, StencilHeight, lineVars, renderVars>>

\* the end of the outer loop: return triangles
MeshReturn ==
    /\ pc = "mesh"
    /\ y = img.h
    /\ pc' = "meshed"
    /\ UNCHANGED <<img, gf, parseVars, meshVars, lineVars, renderVars>>

\* every occupancy field of at most MaxW x MaxH pixels
Fields ==
    UNION { { [w |-> fw, h |-> fh, white |-> s] :
                s \in SUBSET ((0 .. fw - 1) \X (0 .. fh - 1)) } :
            fw \in 0 .. MaxW, fh \in 0 .. MaxH }

InitMesh ==
    /\ pc = "mesh"
    /\ img \in Fields
    /\ StencilHeight \in HeightFlags
    /\ y = 0
    /\ x = 0
    /\ startX = -1
    /\ triangles = << >>
    /\ LineIdle
    /\ gf = NewGerberFile
    /\ RenderIdle
    /\ ParseIdle

NextMesh == MeshPixel \/ MeshRowEnd \/ MeshReturn

SpecMesh == InitMesh /\ [][NextMesh]_vars

(***************************************************************************)
(* The mesh extruder: claims C1 and C2.                                    *)
(***************************************************************************)
\* the pixels of an image
Pixels(im) == (0 .. im.w - 1) \X (0 .. im.h - 1)

\* the number of boxes in the triangle list
NumBoxes == Len(triangles) \div 12

\* the vertices of the k-th group of 12 triangles
BoxVertices(k) == { triangles[12 * (k - 1) + j][v] : j \in 1 .. 12, v \in 1 .. 3 }

\* the extent of the k-th box, in pixels: its first column, the column after its last
\* one, and its row
BoxX0(k) == Min({ p.X : p \in BoxVertices(k) }) \div PixelToMM
BoxX1(k) == Max({ p.X : p \in BoxVertices(k) }) \div PixelToMM
BoxRow(k) == Min({ p.Y : p \in BoxVertices(k) }) \div PixelToMM

\* the boxes that cover pixel <<px, py>>: those of row py whose columns hold px
Covering(px, py) ==
    { k \in 1 .. NumBoxes : BoxRow(k) = py /\ BoxX0(k) <= px /\ px < BoxX1(k) }

RECURSIVE SumWidths(_)
SumWidths(k) == IF k = 0 THEN 0 ELSE (BoxX1(k) - BoxX0(k)) + SumWidths(k - 1)

\* C1: when GenerateMeshFromImage returns, the widths of the boxes sum to the
\* number of solid pixels of the field, every solid pixel is covered by exactly
\* one box of its own row, and no clear pixel is covered by any box.
C1_RunsLossless ==
    pc = "meshed" =>
        /\ Len(triangles) = 12 * NumBoxes
        /\ SumWidths(NumBoxes) = Cardinality(Pixels(img) \ img.white)
        /\ \A p \in Pixels(img) :
             Cardinality(Covering(p[1], p[2])) = (IF isSolid(img, p[1], p[2]) THEN 1 ELSE 0)

\* a field with a clear pixel and a run that reaches the last column, meshed
C1_Witness ==
    /\ pc = "meshed"
    /\ img.white /= {}
    /\ \E k \in 1 .. NumBoxes : BoxX1(k) = img.w /\ BoxX1(k) - BoxX0(k) >= 2
    /\ NumBoxes >= 3

\* the maximal runs of solid pixels of the field: the pixels that start one
Runs(im) ==
    { p \in Pixels(im) :
        /\ isSolid(im, p[1], p[2])
        /\ (p[1] = 0 \/ ~isSolid(im, p[1] - 1, p[2])) }

\* the same pixels, found from the clear pixels: the solid pixels of the first
\* column, and the solid pixels that follow a clear one
RunStarts(im) ==
    IF im.w <= 0 THEN {}
    ELSE ({ <<0, py>> : py \in 0 .. im.h - 1 }
            \cup { <<p[1] + 1, p[2]>> : p \in { q \in im.white : q[1] + 1 < im.w } })
         \ im.white

\* the corners of the box [x0, x1] x [y0, y1] x [0, z1]
Corners(x0, x1, y0, y1, z1) ==
    { Point(cx, cy, cz) : cx \in {x0, x1}, cy \in {y0, y1}, cz \in {0, z1} }

\* the k-th group of 12 triangles is a closed box: 8 distinct corners, and the two
\* triangles of each of the 6 faces share a diagonal and span the 4 corners of the
\* box that lie in the plane of that face
ClosedBox(k) ==
    LET T(j) == triangles[12 * (k - 1) + j]
        V == BoxVertices(k)
        x0 == Min({ p.X : p \in V })
        x1 == Max({ p.X : p \in V })
        y0 == Min({ p.Y : p \in V })
        y1 == Max({ p.Y : p \in V })
        C == Corners(x0, x1, y0, y1, StencilHeight)
        Quad(f) == { T(2 * f - 1)[1], T(2 * f - 1)[2], T(2 * f - 1)[3], T(2 * f)[2] }
        Plane(f) ==
            CASE f = 1 -> { p \in C : p.Z = 0 }                \* bottom
              [] f = 2 -> { p \in C : p.Z = StencilHeight }    \* top
              [] f = 3 -> { p \in C : p.Y = y0 }               \* front
              [] f = 4 -> { p \in C : p.X = x1 }               \* right
              [] f = 5 -> { p \in C : p.Y = y1 }               \* back
              [] f = 6 -> { p \in C : p.X = x0 }               \* left
    IN  /\ x0 < x1
        /\ y1 = y0 + PixelToMM
        /\ V = C
        /\ Cardinality(V) = 8
        /\ \A p \in V : p.Z \in {0, StencilHeight}
        /\ \A f \in 1 .. 6 :
             /\ T(2 * f)[1] = T(2 * f - 1)[3]
             /\ T(2 * f)[3] = T(2 * f - 1)[1]
             /\ Quad(f) = Plane(f)
             /\ Cardinality(Quad(f)) = 4

\* C2: every box in the triangle list is 12 triangles, two for each of its 6
\* faces, with z in {0, extrusion height}; when the mesh is complete the list
\* holds 12 triangles for every run of the field, touching runs included.
C2_TwelveTrianglesPerBox ==
    /\ Len(triangles) = 12 * NumBoxes
    /\ \A k \in 1 .. NumBoxes : ClosedBox(k)
    /\ pc = "meshed" =>
         /\ Len(triangles) = 12 * Cardinality(Runs(img))
         /\ Runs(img) = RunStarts(img)

\* two runs in consecutive rows that touch, both meshed
C2_Witness ==
    /\ pc = "meshed"
    /\ \E k1, k2 \in 1 .. NumBoxes :
         /\ BoxRow(k2) = BoxRow(k1) + 1
         /\ BoxX0(k1) < BoxX1(k2)
         /\ BoxX0(k2) < BoxX1(k1)
    /\ Len(triangles) >= 36

(***************************************************************************)
(* The rasterizer: claims C3, C5, C7 and C9.                               *)
(***************************************************************************)
NoGeometry(cmds) == \A k \in 1 .. Len(cmds) : cmds[k].Type \notin {"DRAW", "FLASH"}

\* C3: for a command sequence with no draw and no flash, rendered with computed
\* bounds, the bounds are the default extent 0..10 widened by the padding 2 on
\* every side, the field is 14 units wide and high (a positive number of pixels),
\* Render does not fail, and the field it returns has a run of solid pixels, so
\* that the solid has 12 triangles or more.
C3_NoGeometryDefault ==
    (pc /= "render" /\ bounds = << >> /\ NoGeometry(gf.Commands)) =>
        /\ pc \in {"replay", "rendered"}
        /\ b = Bounds(-2 * Unit, -2 * Unit, 12 * Unit, 12 * Unit)
        /\ img.w = ToPixels(14 * Unit, gf.State.Units)
        /\ img.h = img.w
        /\ img.w > 0
        /\ pc = "rendered" => 12 * Cardinality(RunStarts(img)) > 0

\* a file of an aperture selection and a move only, rendered to 551 x 551 pixels
C3_Witness ==
    /\ pc = "rendered"
    /\ bounds = << >>
    /\ NoGeometry(gf.Commands)
    /\ \E j, k \in 1 .. Len(gf.Commands) :
         gf.Commands[j].Type = "APERTURE" /\ gf.Commands[k].Type = "MOVE"
    /\ img.w = 551
    /\ img.h = 551

\* the pixel of the pen
PenPixel(px, py) == toPix(b, gf.State.Units, px, py)

\* C5: a replay step of a draw or a flash whose active aperture code is not in the
\* aperture table leaves the field unchanged, stays in the replay (no error) and
\* moves the pen to the given axes; a step whose code is in the table sets the
\* pixel of the new pen position, when it is a pixel of the field.
C5_UndefinedApertureSkipped ==
    [][(pc = "replay" /\ cmdIdx <= Len(gf.Commands)
          /\ gf.Commands[cmdIdx].Type \in {"DRAW", "FLASH"}) =>
        LET cmd == gf.Commands[cmdIdx]
        IN  /\ pc' = "replay"
            /\ cmdIdx' = cmdIdx + 1
            /\ curX' = (IF cmd.X = << >> THEN curX ELSE cmd.X[1])
            /\ curY' = (IF cmd.Y = << >> THEN curY ELSE cmd.Y[1])
            /\ IF curDCode \in DOMAIN gf.State.Apertures
                 THEN LET px == PenPixel(curX', curY')
                      IN  InImage(img, px[1], px[2]) => px \in img'.white
                 ELSE img' = img]_vars

\* a flash at a given point with no aperture selected, then aperture 10 and a flash
\* elsewhere: the pen moved each time and only the second flash stamped its circle
C5_Witness ==
    /\ pc = "replay"
    /\ cmdIdx = 4
    /\ gf.Commands[1].Type = "FLASH"
    /\ gf.Commands[1].X /= << >>
    /\ gf.Commands[1].X[1] /= 0
    /\ gf.Commands[2] = GerberCommand("APERTURE", << >>, << >>, <<10>>)
    /\ gf.Commands[3].Type = "FLASH"
    /\ gf.Commands[3].X = <<0>>
    /\ curX = 0
    /\ Cardinality(img.white) = 5
    /\ PenPixel(gf.Commands[1].X[1], curY) \notin img.white

\* the size of the field that the bounds and the density imply is too large for
\* the pixel buffer
Infeasible ==
    PixelBufferOverflows(ToPixels(RenderBounds.MaxX - RenderBounds.MinX, gf.State.Units),
                         ToPixels(RenderBounds.MaxY - RenderBounds.MinY, gf.State.Units))

\* C7: with bounds that imply an infeasible raster size, Render neither crashes
\* (pc = "panic") nor allocates the field and replays the commands.
C7_InfeasibleFlagged ==
    Infeasible => pc \notin {"panic", "replay", "rendered"}

\* the pen and the active code after the first k commands: the last value given
LastGiven(k, Given(_)) ==
    LET given == { j \in 1 .. k : Given(gf.Commands[j]) }
    IN  IF given = {} THEN 0 ELSE Max(given)

PenXAfter(k) ==
    LET Given(cmd) == cmd.Type /= "APERTURE" /\ cmd.X /= << >>
        j == LastGiven(k, Given)
    IN  IF j = 0 THEN 0 ELSE gf.Commands[j].X[1]

PenYAfter(k) ==
    LET Given(cmd) == cmd.Type /= "APERTURE" /\ cmd.Y /= << >>
        j == LastGiven(k, Given)
    IN  IF j = 0 THEN 0 ELSE gf.Commands[j].Y[1]

CodeAfter(k) ==
    LET Given(cmd) == cmd.Type = "APERTURE"
        j == LastGiven(k, Given)
    IN  IF j = 0 THEN 0 ELSE gf.Commands[j].D[1]

\* C9: throughout the replay the pen is, on each axis, the value of the last move,
\* draw or flash that gave that axis (0 before any) and the active code is that of
\* the last aperture selection; a select-aperture step leaves the pen and the
\* field unchanged, and a move step leaves the field and the active code unchanged.
C9_PenThreaded ==
    /\ [](pc \in {"replay", "rendered"} =>
            /\ curX = PenXAfter(cmdIdx - 1)
            /\ curY = PenYAfter(cmdIdx - 1)
            /\ curDCode = CodeAfter(cmdIdx - 1))
    /\ [][(pc = "replay" /\ cmdIdx <= Len(gf.Commands)) =>
            /\ gf.Commands[cmdIdx].Type = "APERTURE" =>
                 /\ curDCode' = gf.Commands[cmdIdx].D[1]
                 /\ UNCHANGED <<curX, curY, img>>
            /\ gf.Commands[cmdIdx].Type = "MOVE" =>
                 UNCHANGED <<img, curDCode>>]_vars

\* a command that gives both axes, an aperture selection, and a draw that omits X:
\* the pen keeps the X of the first command and the field is stamped
C9_Witness ==
    /\ pc = "rendered"
    /\ Len(gf.Commands) = 3
    /\ gf.Commands[1].Type = "MOVE"
    /\ gf.Commands[1].X /= << >>
    /\ gf.Commands[1].X[1] /= 0
    /\ gf.Commands[2].Type = "APERTURE"
    /\ gf.Commands[2].D = <<10>>
    /\ gf.Commands[3].Type = "DRAW"
    /\ gf.Commands[3].X = << >>
    /\ gf.Commands[3].Y /= << >>
    /\ curX = gf.Commands[1].X[1]
    /\ curY = gf.Commands[3].Y[1]
    /\ img.white /= {}

(***************************************************************************)
(* The interpreter: claims C4, C6 and C10.                                 *)
(***************************************************************************)
\* the numeral without its sign
Unsigned(str) == IF HasPrefix(str, "-") THEN Slice(str, 2, Len(str)) ELSE str

\* a numeral: an optional "-", then digits with at most one point, one digit or more
Numeral(str) ==
    LET body == Unsigned(str)
        points == { k \in 1 .. Len(body) : Char(body, k) = "." }
    IN  /\ \A k \in 1 .. Len(body) : Char(body, k) \in Digits \cup {"."}
        /\ Cardinality(points) <= 1
        /\ Cardinality(points) < Len(body)

RECURSIVE PlaceSum(_, _, _)
PlaceSum(body, places, power) ==
    IF places = {} THEN 0
    ELSE LET k == Max(places)
         IN  DigitValue[Char(body, k)] * power + PlaceSum(body, places \ {k}, 10 * power)

\* the number a numeral writes, <<m, e>> for m * 10^-e: each digit times the power
\* of ten of its place, and one decimal for each digit after the point
LiteralValue(str) ==
    LET body == Unsigned(str)
        places == { k \in 1 .. Len(body) : Char(body, k) /= "." }
        after == { k \in places : \E j \in 1 .. k : Char(body, j) = "." }
        m == PlaceSum(body, places, 1)
    IN  <<IF HasPrefix(str, "-") THEN -m ELSE m, Cardinality(after)>>

\* the decimals c and d are the same number
SameNumber(c, d) == c[1] * Pow10(d[2]) = d[1] * Pow10(c[2])

\* C4: for a numeral with a decimal point parseCoordinate returns the number it
\* writes, unscaled; for a numeral without a point it returns the integer divided
\* by 10^Decimal of the format of its axis (FormatX for X, FormatY for Y); the
\* string 1234 under a format with 4 decimals gives 0.1234.
C4_CoordinateValue ==
    (pc = "coord_done" /\ Numeral(valStr)) =>
        LET dec == IF axis = "X" THEN gf.State.FormatX.Decimal
                                 ELSE gf.State.FormatY.Decimal
            lit == LiteralValue(valStr)
        IN  /\ Contains(valStr, ".") => SameNumber(coord, lit)
            /\ ~Contains(valStr, ".") => SameNumber(coord, <<lit[1], dec>>)
            /\ (valStr = "1234" /\ dec = 4) => coord = <<1234, 4>>

\* the Y value 1234 under a format of 1 decimal for X and 4 for Y: 0.1234
C4_Witness ==
    /\ pc = "coord_done"
    /\ valStr = "1234"
    /\ axis = "Y"
    /\ gf.State.FormatX.Decimal = 1
    /\ gf.State.FormatY.Decimal = 4
    /\ coord = <<1234, 4>>

\* C6: when ParseGerber has returned, a read that failed (at open or at any line)
\* gave an error and no GerberFile, and a return without error has read every line.
C6_ReadFailureFatal ==
    pc = "parsed" =>
        /\ readFailed => (ret.err /= << >> /\ ret.gf = << >>)
        /\ ret.err /= << >> => ret.gf = << >>
        /\ ret.err = << >> => (scanned = Len(lines) /\ ~readFailed)

IsMacroStart(text) == HasPrefix(TrimSpace(text), "%AM")
IsClose(text) == TrimSpace(text) = "%"

\* the line that opened the macro block that holds line k, 0 when line k is in no
\* block: an aperture-macro directive before k that is itself in no block, with no
\* closing marker between it and k
RECURSIVE BlockStart(_)
BlockStart(k) ==
    LET opens == { a \in 1 .. k - 1 :
                     /\ IsMacroStart(lines[a])
                     /\ \A j \in a + 1 .. k - 1 : ~IsClose(lines[j])
                     /\ BlockStart(a) = 0 }
    IN  IF opens = {} THEN 0 ELSE Max(opens)

\* C10: a line inside a macro block is read by the inner loop and changes neither
\* the commands nor the apertures, the units or the format; the closing marker
\* stores the macro under its name, one primitive for each line of the block, and
\* gives the scan back to the outer loop; a line outside every block is read by the
\* outer loop, which keeps the commands so far in order and appends those of the
\* line, and only an aperture-macro directive starts the inner loop.
C10_MacroBlockConsumed ==
    [][scanned' = scanned + 1 =>
        LET k == scanned'
            a == BlockStart(k)
            name == TrimSuffix(TrimPrefix(TrimSpace(lines[a]), "%AM"), "*")
        IN  IF a /= 0
              THEN /\ pc = "macro"
                   /\ gf'.Commands = gf.Commands
                   /\ gf'.State.Apertures = gf.State.Apertures
                   /\ gf'.State.Units = gf.State.Units
                   /\ gf'.State.FormatX = gf.State.FormatX
                   /\ gf'.State.FormatY = gf.State.FormatY
                   /\ IF IsClose(lines[k])
                        THEN /\ pc' = "scan"
                             /\ name \in DOMAIN gf'.State.Macros
                             /\ Len(gf'.State.Macros[name]) = k - a - 1
                        ELSE /\ pc' = "macro"
                             /\ gf' = gf
              ELSE /\ pc = "scan"
                   /\ pc' = (IF IsMacroStart(lines[k]) THEN "macro" ELSE "scan")
                   /\ gf'.State.Macros = gf.State.Macros
                   /\ Len(gf'.Commands) >= Len(gf.Commands)
                   /\ SubSeq(gf'.Commands, 1, Len(gf.Commands)) = gf.Commands
                   /\ lines[k] = "D10*X1234Y5D03* " =>
                        /\ Len(gf'.Commands) = Len(gf.Commands) + 2
                        /\ gf'.Commands[Len(gf.Commands) + 1]
                             = GerberCommand("APERTURE", << >>, << >>, <<10>>)
                        /\ gf'.Commands[Len(gf.Commands) + 2].Type = "FLASH"
                   /\ HasPrefix(TrimSpace(lines[k]), "%") => gf'.Commands = gf.Commands]_vars

\* a macro block that holds an aperture definition, its closing marker, and a
\* selection and a flash after it: the macro has one primitive, no aperture is
\* defined, and the two commands of the last line are the only ones
C10_Witness ==
    /\ pc = "scan"
    /\ scanned = 4
    /\ lines = <<"%AMPAD*", "%ADD10C,0.5*%", "%", "D10*X1234Y5D03* ">>
    /\ DOMAIN gf.State.Macros = {"PAD"}
    /\ Len(gf.State.Macros["PAD"]) = 1
    /\ DOMAIN gf.State.Apertures = {}
    /\ Len(gf.Commands) = 2
    /\ gf.Commands[2].Type = "FLASH"

(***************************************************************************)
(* The rasterizer: claim C11.                                              *)
(***************************************************************************)
\* the pen positions that count for the bounds: the position after every flash and
\* every draw, and the position before every draw
Contributors ==
    { <<PenXAfter(k), PenYAfter(k)>> :
        k \in { j \in 1 .. Len(gf.Commands) : gf.Commands[j].Type \in {"FLASH", "DRAW"} } }
    \cup { <<PenXAfter(k - 1), PenYAfter(k - 1)>> :
             k \in { j \in 1 .. Len(gf.Commands) : gf.Commands[j].Type = "DRAW" } }

====
